---- MODULE Spec2Model ----
(***************************************************************************)
(* Stock-signals backend: the billing router (Stripe and Razorpay          *)
(* webhooks, verify-payment, checkout creation, status), the auth router   *)
(* (signup, login) with its Redis rate limiter, the signals router with    *)
(* its cache, and the Redis wrapper.                                       *)
(*                                                                         *)
(* Every handler is an asyncio coroutine: it runs without interruption     *)
(* between two awaits on a shared store (Redis, the database), so each     *)
(* action below is one such segment of one request.  A request that is     *)
(* between two awaits sits in `inflight`; the response a segment sends is  *)
(* held in `response` until the next step of the system.                   *)
(***************************************************************************)
EXTENDS Integers, Sequences, FiniteSets, TLC

VARIABLES
    app,        \* lifespan of the FastAPI application: "created" | "running"
    settings,   \* Settings(), read once at import
    redis,      \* RedisService.redis: FALSE is None, TRUE is a client object
    store,      \* the Redis keyspace: key -> [val, exp]
    now,        \* seconds since the application started
    users,      \* the users table, indexed by the autoincrement id
    inflight,   \* slot -> the request suspended at an await (or idle)
    response,   \* the response sent by the last step, NoResponse otherwise
    outbound,   \* the payment-provider call made by the last step
    issued,     \* the event and payment ids the providers have issued so far
    entitled,   \* history: user ids named by a verified payment input received so far
    applied,    \* history: idempotency key -> instant its last application completed
    admitted    \* history: rate-limit key -> the requests Redis counted under it

vars == <<app, settings, redis, store, now, users, inflight, response, outbound,
          issued, entitled, applied, admitted>>

(***************************************************************************)
(* Bounds of the model.                                                    *)
(***************************************************************************)
MaxInFlight == 2
MaxMinutes == 1
MaxDays == 1
MaxCount == 2
MaxIssued == 1
MaxBurst == 7

(***************************************************************************)
(* Program constants.                                                      *)
(***************************************************************************)
max_requests == 5
window_seconds == 60
STRIPE_EVENT_TTL == 86400
RAZORPAY_PAYMENT_TTL == 86400
RAZORPAY_WEBHOOK_TTL == 86400

Day == 24 * 60 * 60
Minute == Day \div 1440

\* The instants at which the clock is observed: whole days, and up to
\* `minutes` minutes after each.
Moments(minutes, days) == {m * Minute + d * Day : m \in 0..minutes, d \in 0..days}

(***************************************************************************)
(* Python values.  A str that the code converts or tests for truth is a    *)
(* sequence of characters; None is a value of its own.                     *)
(***************************************************************************)
None == <<"<None>">>
Digits == {"0", "1", "2", "3", "4", "5", "6", "7", "8", "9"}

Truthy(v) == v # None /\ v # <<>>

DigitVal(c) ==
    CASE c = "0" -> 0 [] c = "1" -> 1 [] c = "2" -> 2 [] c = "3" -> 3
      [] c = "4" -> 4 [] c = "5" -> 5 [] c = "6" -> 6 [] c = "7" -> 7
      [] c = "8" -> 8 [] c = "9" -> 9

\* int(s), for a str of letters and digits: ValueError unless s is a non-empty
\* run of decimal digits.  int(None) raises TypeError.
IntRaises(s) == s = <<>> \/ \E i \in 1..Len(s) : s[i] \notin Digits

RECURSIVE int(_)
int(s) == IF s = <<>> THEN 0 ELSE 10 * int(SubSeq(s, 1, Len(s) - 1)) + DigitVal(s[Len(s)])

(***************************************************************************)
(* Settings (config.py).  An unset secret is the empty string.             *)
(***************************************************************************)
Configured ==
    [payment_gateway |-> "stripe",
     stripe_secret_key |-> "sk_live", stripe_webhook_secret |-> "whsec_stripe",
     razorpay_key_id |-> "rzp_key", razorpay_key_secret |-> "rzp_secret",
     razorpay_webhook_secret |-> "whsec_razorpay"]

Defaults ==
    [payment_gateway |-> "stripe",
     stripe_secret_key |-> "", stripe_webhook_secret |-> "",
     razorpay_key_id |-> "", razorpay_key_secret |-> "",
     razorpay_webhook_secret |-> ""]

Deployments == {Configured, Defaults}

\* Every way of setting the default gateway and the credentials the checkout
\* code reads, each credential set or left empty.
Installations ==
    {[Configured EXCEPT !.payment_gateway = g, !.stripe_secret_key = sk,
                        !.razorpay_key_id = id, !.razorpay_key_secret = secret] :
        g \in {"stripe", "razorpay"}, sk \in {"", "sk_live"},
        id \in {"", "rzp_key"}, secret \in {"", "rzp_secret"}}

\* razorpay_client is built at import only when both credentials are set.
razorpay_client(s) == s.razorpay_key_id # "" /\ s.razorpay_key_secret # ""

(***************************************************************************)
(* Signatures.  An HMAC is determined by the key and the signed bytes;     *)
(* two HMACs agree exactly when both agree.                                *)
(***************************************************************************)
Hmac(key, msg) == [key |-> key, msg |-> msg]

\* The keys a sender may sign with: the provider's secret for that channel, a
\* key of the sender's own, and the empty key.
SigningKeys(genuine) == {genuine, "forged", ""}

(***************************************************************************)
(* RedisService (redis_service.py).  Every key held in `store` is live:    *)
(* the clock purges a key at its expiry.  Each wrapper method answers      *)
(* without raising when self.redis is None.                                *)
(***************************************************************************)
NoExpiry == 0 - 1

Put(f, k, v) == [x \in (DOMAIN f) \cup {k} |-> IF x = k THEN v ELSE f[x]]

\* Mutant: a wrapper without a client reports every key as present.
redis_exists_unconnected(key) == IF ~redis THEN TRUE ELSE key \in DOMAIN store

redis_exists(key) == IF ~redis THEN FALSE ELSE key \in DOMAIN store

\* Mutant: the key is written with SET, without a TTL.
redis_set_persistent(key, value, ttl) ==
    IF ~redis THEN store ELSE Put(store, key, [val |-> value, exp |-> NoExpiry])

\* Mutant: the write is dropped.
redis_set_dropped(key, value, ttl) == store

\* set(key, value, ttl): SETEX when ttl is truthy, SET otherwise.
redis_set(key, value, ttl) ==
    IF ~redis THEN store
    ELSE Put(store, key, [val |-> value, exp |-> IF ttl # 0 THEN now + ttl ELSE NoExpiry])

\* Mutant: the counter is read before it is incremented.
redis_incr_read_first(key) ==
    IF ~redis THEN 0 ELSE IF key \in DOMAIN store THEN store[key].val ELSE 0

\* incr(key): the value INCR returns; 0 when not connected.
redis_incr(key) ==
    IF ~redis THEN 0 ELSE IF key \in DOMAIN store THEN store[key].val + 1 ELSE 1

\* The keyspace after INCR: a new key is created without a TTL.
redis_incr_store(key) ==
    IF ~redis THEN store
    ELSE Put(store, key, [val |-> redis_incr(key),
                          exp |-> IF key \in DOMAIN store THEN store[key].exp ELSE NoExpiry])

\* expire(key, ttl): EXPIRE does nothing for a key that does not exist.
redis_expire(key, ttl) ==
    IF ~redis \/ key \notin DOMAIN store THEN store
    ELSE [store EXCEPT ![key].exp = now + ttl]

(***************************************************************************)
(* Requests in flight and responses.                                       *)
(***************************************************************************)
Slots == 1..MaxInFlight
Idle == [kind |-> "idle"]
NoResponse == [endpoint |-> "none", code |-> 0, status |-> ""]
NoCall == [gateway |-> "none"]

\* uid and loaded are the handler's locals: the user row it selected.
\* trace: what the request did so far ("committed": ran the entitlement commit).
Request(kind, pc, req) ==
    [kind |-> kind, pc |-> pc, req |-> req, trace |-> {}, uid |-> 0, loaded |-> "None"]

IsIdle(s) == inflight[s].kind = "idle"
FreeSlot(s) == IsIdle(s) /\ \A t \in Slots : t < s => ~IsIdle(t)
At(s, kind, pc) == inflight[s].kind = kind /\ inflight[s].pc = pc

\* The request occupying slot s is suspended at its next await.
Suspend(s, rec) ==
    /\ inflight' = [inflight EXCEPT ![s] = rec]
    /\ response' = NoResponse

Reply(endpoint, code, status) == [endpoint |-> endpoint, code |-> code, status |-> status]

\* The request of slot s ends with response r.
Finish(s, r) ==
    /\ inflight' = [inflight EXCEPT ![s] = Idle]
    /\ response' = r

\* History entry of `applied`: a delivery that passed the idempotency check has
\* completed at `now`; uid is the user whose entitlement update it ran (0: none).
Applied(uid, ok) == [at |-> now, uid |-> uid, ok |-> ok]

(***************************************************************************)
(* The users table (models/user.py).                                       *)
(***************************************************************************)
FirstEmail == {"a@x.io"}
Passwords == {"pw"}

UserIds == 1..Len(users)

NewUser(email, hashed_password) ==
    [email |-> email, hashed_password |-> hashed_password,
     is_paid |-> FALSE, stripe_customer_id |-> "None"]

\* Mutant: the flag is flipped instead of set.
MarkPaidFlip(row, loaded, customer) ==
    [row EXCEPT !.is_paid = ~@,
                !.stripe_customer_id = IF customer = loaded THEN @ ELSE customer]

\* Mutant: a customer reference equal to the loaded one is cleared.
MarkPaidClear(row, loaded, customer) ==
    [row EXCEPT !.is_paid = TRUE,
                !.stripe_customer_id = IF customer = loaded THEN "None" ELSE customer]

\* The UPDATE that the unit of work flushes for a loaded user whose is_paid was
\* set to True and whose stripe_customer_id was assigned `customer`: an
\* attribute assigned the value it was loaded with is not written.
MarkPaid(row, loaded, customer) ==
    [row EXCEPT !.is_paid = TRUE,
                !.stripe_customer_id = IF customer = loaded THEN @ ELSE customer]

(***************************************************************************)
(* Stripe webhook payloads.  The provider makes the event; its id fixes    *)
(* its content.  A dict is a set of <<key, value>> pairs.                  *)
(***************************************************************************)
\* dict.get(key): the value, or None when the key is absent.
DictGet(d, k) ==
    IF \E p \in d : p[1] = k THEN (CHOOSE p \in d : p[1] = k)[2] ELSE None

Completed == "checkout.session.completed"

StripeEvent(id, type, metadata, customer) ==
    [json |-> TRUE, id |-> id, type |-> type, metadata |-> metadata, customer |-> customer]

StripePayloads ==
    { StripeEvent("evt_u1", Completed, {<<"user_id", <<"1">>>>}, "cus_A"),
      StripeEvent("evt_u2", Completed, {<<"user_id", <<"2">>>>}, "None"),
      StripeEvent("evt_abc", Completed, {<<"user_id", <<"a", "b", "c">>>>}, "None"),
      StripeEvent("evt_nometa", Completed, {}, "None"),
      StripeEvent("evt_other", "invoice.paid", {<<"user_id", <<"1">>>>}, "cus_A"),
      StripeEvent("evt_u7", Completed, {<<"user_id", <<"7">>>>}, "None"),
      [json |-> FALSE, id |-> "evt_bad", type |-> "", metadata |-> {}, customer |-> "None"] }

\* Mutant: the payload is parsed without checking the signature.
construct_event_unverified(payload, sig_header) == ~payload.json

\* StripeService.construct_webhook_event: stripe.Webhook.construct_event checks
\* the signature header against the raw payload and the configured secret, then
\* parses; either failure is re-raised as an Exception.
construct_webhook_event_raises(payload, sig_header) ==
    sig_header # Hmac(settings.stripe_webhook_secret, payload) \/ ~payload.json

(***************************************************************************)
(* Ids in play.  A request may carry an id seen before, or a new one while *)
(* fewer than MaxIssued exist.                                             *)
(***************************************************************************)
NoId == "None"

CanCarry(id) == id = NoId \/ id \in issued \/ Cardinality(issued) < MaxIssued
Carry(id) == IF id = NoId THEN issued ELSE issued \cup {id}

(***************************************************************************)
(* POST /billing/stripe/webhook  (billing.py 105-143)                      *)
(***************************************************************************)
StripeKey(payload) == <<"stripe_event", payload.id>>

\* History: a genuine payment-completed event naming user id n has arrived.
StripeNames(payload, sig) ==
    IF /\ sig.key = settings.stripe_webhook_secret /\ sig.msg = payload
       /\ payload.json /\ payload.type = Completed
       /\ ~IntRaises(DictGet(payload.metadata, "user_id"))
    THEN {int(DictGet(payload.metadata, "user_id"))} ELSE {}

\* The handler reaches int(user_id) with a user id that int() rejects.
StripeCrashes(payload) ==
    /\ payload.type = Completed
    /\ Truthy(DictGet(payload.metadata, "user_id"))
    /\ IntRaises(DictGet(payload.metadata, "user_id"))

\* Lines 113-131: verify, idempotency check, read the user id.
stripe_webhook(s, payload, sig) ==
    LET user_id == DictGet(payload.metadata, "user_id")
        me(pc) == Request("stripe_webhook", pc, payload)
        passed == ~construct_webhook_event_raises(payload, sig)
                     /\ ~redis_exists(StripeKey(payload))
    IN  /\ app = "running" /\ FreeSlot(s)
        /\ CanCarry(IF payload.json THEN payload.id ELSE NoId)
        /\ issued' = Carry(IF payload.json THEN payload.id ELSE NoId)
        /\ entitled' = entitled \cup StripeNames(payload, sig)
        /\ applied' = IF passed /\ StripeCrashes(payload)
                      THEN Put(applied, StripeKey(payload), Applied(0, FALSE))
                      ELSE applied
        /\ outbound' = NoCall
        /\ UNCHANGED <<admitted, app, settings, redis, store, now, users>>
        /\ IF construct_webhook_event_raises(payload, sig)
           THEN Finish(s, Reply("stripe_webhook", 400, "error"))
           ELSE IF redis_exists(StripeKey(payload))
           THEN Finish(s, Reply("stripe_webhook", 200, "already_processed"))
           ELSE IF payload.type = Completed /\ Truthy(user_id)
           THEN IF IntRaises(user_id)
                THEN Finish(s, Reply("stripe_webhook", 500, "error"))
                ELSE Suspend(s, me("select"))
           ELSE Suspend(s, me("set"))

\* Lines 134-137: select the user named by the event.
stripe_webhook_select(s) ==
    LET r == inflight[s]
        id == int(DictGet(r.req.metadata, "user_id"))
    IN  /\ At(s, "stripe_webhook", "select")
        /\ IF id \in UserIds
           THEN Suspend(s, [r EXCEPT !.pc = "commit", !.uid = id,
                                     !.loaded = users[id].stripe_customer_id])
           ELSE Suspend(s, [r EXCEPT !.pc = "set"])
        /\ outbound' = NoCall
        /\ UNCHANGED <<admitted, app, settings, redis, store, now, users, issued, entitled, applied>>

\* Lines 138-140: set the flag and the customer reference, commit.
stripe_webhook_commit(s) ==
    LET r == inflight[s]
    IN  /\ At(s, "stripe_webhook", "commit")
        /\ users' = [users EXCEPT ![r.uid] = MarkPaid(@, r.loaded, r.req.customer)]
        /\ Suspend(s, [r EXCEPT !.pc = "set", !.trace = @ \cup {"committed"}])
        /\ outbound' = NoCall
        /\ UNCHANGED <<admitted, app, settings, redis, store, now, issued, entitled, applied>>

\* Mutant: the key is written only if absent, and a delivery that finds it
\* written answers 'already_processed'.
stripe_webhook_set_if_absent(s) ==
    LET r == inflight[s]
    IN  /\ At(s, "stripe_webhook", "set")
        /\ store' = IF redis_exists(StripeKey(r.req)) THEN store
                     ELSE redis_set(StripeKey(r.req), "processed", STRIPE_EVENT_TTL)
        /\ applied' = Put(applied, StripeKey(r.req), Applied(r.uid, TRUE))
        /\ Finish(s, Reply("stripe_webhook", 200,
                            IF redis_exists(StripeKey(r.req))
                            THEN "already_processed" ELSE "success"))
        /\ outbound' = NoCall
        /\ UNCHANGED <<admitted, app, settings, redis, now, users, issued, entitled>>

\* Lines 142-143: record the idempotency key, acknowledge.
stripe_webhook_set(s) ==
    LET r == inflight[s]
    IN  /\ At(s, "stripe_webhook", "set")
        /\ store' = redis_set(StripeKey(r.req), "processed", STRIPE_EVENT_TTL)
        /\ applied' = Put(applied, StripeKey(r.req), Applied(r.uid, TRUE))
        /\ Finish(s, Reply("stripe_webhook", 200, "success"))
        /\ outbound' = NoCall
        /\ UNCHANGED <<admitted, app, settings, redis, now, users, issued, entitled>>

(***************************************************************************)
(* POST /billing/razorpay/webhook  (billing.py 205-250)                    *)
(***************************************************************************)
Captured == "payment.captured"

\* event: the "event" field; payment_id and notes: payload.payment.entity.
RazorpayEvent(event, payment_id, notes) ==
    [json |-> TRUE, event |-> event, payment_id |-> payment_id, notes |-> notes]

RazorpayPayloads ==
    { RazorpayEvent("payment.authorized", "pay_u1", {<<"user_id", <<"1">>>>}),
      RazorpayEvent(Captured, "pay_u1", {<<"user_id", <<"1">>>>}),
      RazorpayEvent(Captured, "pay_u2", {<<"user_id", <<"2">>>>}),
      RazorpayEvent(Captured, "pay_abc", {<<"user_id", <<"a", "b", "c">>>>}),
      RazorpayEvent(Captured, "pay_nonotes", {}),
      RazorpayEvent(Captured, "pay_u7", {<<"user_id", <<"7">>>>}),
      RazorpayEvent("settlement.processed", NoId, {}),
      [json |-> FALSE, event |-> "", payment_id |-> NoId, notes |-> {}] }

\* Mutant: the digest is compared without the secret.
verify_webhook_signature_keyless(payload, signature) == signature.msg = payload

\* RazorpayService.verify_webhook_signature (razorpay_service.py 69-81).
verify_webhook_signature(payload, signature) ==
    IF settings.razorpay_webhook_secret = "" THEN FALSE
    ELSE Hmac(settings.razorpay_webhook_secret, payload) = signature

RazorpayKey(payload) == <<"razorpay_webhook", payload.payment_id>>

\* History: a genuine payment.captured event naming user id n has arrived.
RazorpayNames(payload, sig) ==
    IF /\ sig.key = settings.razorpay_webhook_secret /\ sig.msg = payload
       /\ payload.json /\ payload.event = Captured
       /\ ~IntRaises(DictGet(payload.notes, "user_id"))
    THEN {int(DictGet(payload.notes, "user_id"))} ELSE {}

RazorpayCrashes(payload) ==
    /\ payload.event = Captured
    /\ Truthy(DictGet(payload.notes, "user_id"))
    /\ IntRaises(DictGet(payload.notes, "user_id"))

\* Lines 213-240: verify, parse, idempotency check, read the user id.
razorpay_webhook(s, payload, sig) ==
    LET user_id == DictGet(payload.notes, "user_id")
        me(pc) == Request("razorpay_webhook", pc, payload)
        passed == /\ verify_webhook_signature(payload, sig) /\ payload.json
                  /\ payload.payment_id # NoId /\ ~redis_exists(RazorpayKey(payload))
    IN  /\ app = "running" /\ FreeSlot(s)
        /\ CanCarry(payload.payment_id)
        /\ issued' = Carry(payload.payment_id)
        /\ entitled' = entitled \cup RazorpayNames(payload, sig)
        /\ applied' = IF passed /\ RazorpayCrashes(payload)
                      THEN Put(applied, RazorpayKey(payload), Applied(0, FALSE))
                      ELSE applied
        /\ outbound' = NoCall
        /\ UNCHANGED <<admitted, app, settings, redis, store, now, users>>
        /\ IF ~verify_webhook_signature(payload, sig)
           THEN Finish(s, Reply("razorpay_webhook", 400, "error"))
           ELSE IF ~payload.json      \* json.loads raises
           THEN Finish(s, Reply("razorpay_webhook", 500, "error"))
           ELSE IF payload.payment_id = NoId
           THEN Finish(s, Reply("razorpay_webhook", 200, "success"))
           ELSE IF redis_exists(RazorpayKey(payload))
           THEN Finish(s, Reply("razorpay_webhook", 200, "already_processed"))
           ELSE IF payload.event = Captured /\ Truthy(user_id)
           THEN IF IntRaises(user_id)
                THEN Finish(s, Reply("razorpay_webhook", 500, "error"))
                ELSE Suspend(s, me("select"))
           ELSE Suspend(s, me("set"))

\* Lines 241-243: select the user named by the payment's notes.
razorpay_webhook_select(s) ==
    LET r == inflight[s]
        id == int(DictGet(r.req.notes, "user_id"))
    IN  /\ At(s, "razorpay_webhook", "select")
        /\ IF id \in UserIds
           THEN Suspend(s, [r EXCEPT !.pc = "commit", !.uid = id])
           ELSE Suspend(s, [r EXCEPT !.pc = "set"])
        /\ outbound' = NoCall
        /\ UNCHANGED <<admitted, app, settings, redis, store, now, users, issued, entitled, applied>>

\* Lines 245-246: set the flag, commit.
razorpay_webhook_commit(s) ==
    LET r == inflight[s]
    IN  /\ At(s, "razorpay_webhook", "commit")
        /\ users' = [users EXCEPT ![r.uid].is_paid = TRUE]
        /\ Suspend(s, [r EXCEPT !.pc = "set", !.trace = @ \cup {"committed"}])
        /\ outbound' = NoCall
        /\ UNCHANGED <<admitted, app, settings, redis, store, now, issued, entitled, applied>>

\* Lines 248-250: record the idempotency key, acknowledge.
razorpay_webhook_set(s) ==
    LET r == inflight[s]
    IN  /\ At(s, "razorpay_webhook", "set")
        /\ store' = redis_set(RazorpayKey(r.req), "processed", RAZORPAY_WEBHOOK_TTL)
        /\ applied' = Put(applied, RazorpayKey(r.req), Applied(r.uid, TRUE))
        /\ Finish(s, Reply("razorpay_webhook", 200, "success"))
        /\ outbound' = NoCall
        /\ UNCHANGED <<admitted, app, settings, redis, now, users, issued, entitled>>

(***************************************************************************)
(* The credential service (app/services/auth.py): get_current_user yields  *)
(* the user row the bearer token names, or fails with 401; a password hash *)
(* matches the password it was made from and no other.                     *)
(***************************************************************************)
Callers == 1..(Len(users) + 1)

Authenticated(caller) == caller \in UserIds

hash_password(password) == <<"hash", password>>
verify_password(password, hashed) == hashed = hash_password(password)

(***************************************************************************)
(* POST /billing/razorpay/verify-payment  (billing.py 169-202)             *)
(***************************************************************************)
PaymentKey(payment_id) == <<"razorpay_payment", payment_id>>

\* The payments a client may present, and the order each was made on.
PaymentIds == {"pay_u1", "pay_u2"}
OrderIds == {"order_u1", "order_u2"}
OrderOf(payment_id) == IF payment_id = "pay_u1" THEN "order_u1" ELSE "order_u2"

\* RazorpayService.create_order (razorpay_service.py 29-36): the user an order
\* was created for, kept in the order's notes and receipt.
OrderUser(order_id) == IF order_id = "order_u1" THEN 1 ELSE 2

\* Mutant: the signature is checked for the key only, not for what it signs.
verify_payment_signature_unbound(order_id, payment_id, signature) ==
    IF ~razorpay_client(settings) THEN FALSE
    ELSE signature.key = settings.razorpay_key_secret

\* RazorpayService.verify_payment_signature (razorpay_service.py 49-67): the
\* client utility recomputes the HMAC of "order_id|payment_id" under the key
\* secret; without a client the answer is False.
verify_payment_signature(order_id, payment_id, signature) ==
    IF ~razorpay_client(settings) THEN FALSE
    ELSE signature = Hmac(settings.razorpay_key_secret, <<order_id, payment_id>>)

\* History: user `caller` presented a genuine payment signature.
VerifyNames(caller, order_id, payment_id, signature) ==
    IF /\ Authenticated(caller)
       /\ signature.key = settings.razorpay_key_secret
       /\ signature.msg = <<order_id, payment_id>>
    THEN {caller} ELSE {}

\* Lines 177-196: idempotency check, signature verification.
verify_razorpay_payment(s, caller, order_id, payment_id, signature) ==
    LET req == [order_id |-> order_id, payment_id |-> payment_id]
    IN  /\ app = "running" /\ FreeSlot(s)
        /\ CanCarry(payment_id)
        /\ issued' = Carry(payment_id)
        /\ entitled' = entitled \cup VerifyNames(caller, order_id, payment_id, signature)
        /\ outbound' = NoCall
        /\ UNCHANGED <<admitted, app, settings, redis, store, now, users, applied>>
        /\ IF ~Authenticated(caller)
           THEN Finish(s, Reply("verify_payment", 401, "error"))
           ELSE IF redis_exists(PaymentKey(payment_id))
           THEN Finish(s, Reply("verify_payment", 200, "already_processed")
                             @@ [is_paid |-> TRUE])
           ELSE IF ~verify_payment_signature(order_id, payment_id, signature)
           THEN Finish(s, Reply("verify_payment", 400, "error"))
           ELSE Suspend(s, [Request("verify_payment", "commit", req)
                              EXCEPT !.uid = caller, !.trace = {"verified"}])

\* Lines 196-197: set the caller's flag, commit.
verify_razorpay_payment_commit(s) ==
    LET r == inflight[s]
    IN  /\ At(s, "verify_payment", "commit")
        /\ users' = [users EXCEPT ![r.uid].is_paid = TRUE]
        /\ Suspend(s, [r EXCEPT !.pc = "set", !.trace = @ \cup {"committed"}])
        /\ outbound' = NoCall
        /\ UNCHANGED <<admitted, app, settings, redis, store, now, issued, entitled, applied>>

\* Mutant: the answer is given without recording the payment id.
verify_razorpay_payment_set_unrecorded(s) ==
    LET r == inflight[s]
    IN  /\ At(s, "verify_payment", "set")
        /\ store' = store
        /\ applied' = Put(applied, PaymentKey(r.req.payment_id), Applied(r.uid, TRUE))
        /\ Finish(s, Reply("verify_payment", 200, "success") @@ [is_paid |-> TRUE])
        /\ outbound' = NoCall
        /\ UNCHANGED <<admitted, app, settings, redis, now, users, issued, entitled>>

\* Lines 200-202: record the idempotency key, answer.
verify_razorpay_payment_set(s) ==
    LET r == inflight[s]
    IN  /\ At(s, "verify_payment", "set")
        /\ store' = redis_set(PaymentKey(r.req.payment_id), "processed", RAZORPAY_PAYMENT_TTL)
        /\ applied' = Put(applied, PaymentKey(r.req.payment_id), Applied(r.uid, TRUE))
        /\ Finish(s, Reply("verify_payment", 200, "success") @@ [is_paid |-> TRUE])
        /\ outbound' = NoCall
        /\ UNCHANGED <<admitted, app, settings, redis, now, users, issued, entitled>>

(***************************************************************************)
(* Checkout creation and status  (billing.py 76-102, 148-166, 255-309)     *)
(***************************************************************************)
AlreadySubscribed(endpoint) == Reply(endpoint, 400, "User already has an active subscription")

\* StripeService.create_checkout_session: the SDK call; the SDK refuses an
\* empty api key, and any StripeError is re-raised.
create_checkout_session(endpoint, provider_ok) ==
    /\ outbound' = [gateway |-> "stripe"]
    /\ response' = IF provider_ok /\ settings.stripe_secret_key # ""
                   THEN Reply(endpoint, 200, "ok") @@ [gateway |-> "stripe"]
                   ELSE Reply(endpoint, 500, "error")

\* RazorpayService.create_order: raises before any call when there is no client.
create_order(endpoint, provider_ok) ==
    IF ~razorpay_client(settings)
    THEN outbound' = NoCall /\ response' = Reply(endpoint, 500, "error")
    ELSE /\ outbound' = [gateway |-> "razorpay"]
         /\ response' = IF provider_ok
                        THEN Reply(endpoint, 200, "ok") @@ [gateway |-> "razorpay"]
                        ELSE Reply(endpoint, 500, "error")

Refuse(r) == outbound' = NoCall /\ response' = r

create_stripe_checkout(caller, provider_ok) ==
    /\ app = "running"
    /\ IF ~Authenticated(caller) THEN Refuse(Reply("create_stripe_checkout", 401, "error"))
       ELSE IF users[caller].is_paid THEN Refuse(AlreadySubscribed("create_stripe_checkout"))
       ELSE create_checkout_session("create_stripe_checkout", provider_ok)
    /\ UNCHANGED <<admitted, app, settings, redis, store, now, users, inflight, issued, entitled, applied>>

\* Mutant: the order is created without looking at the caller's flag.
create_razorpay_order_unchecked(caller, provider_ok) ==
    /\ app = "running"
    /\ IF ~Authenticated(caller) THEN Refuse(Reply("create_razorpay_order", 401, "error"))
       ELSE create_order("create_razorpay_order", provider_ok)
    /\ UNCHANGED <<admitted, app, settings, redis, store, now, users, inflight, issued, entitled, applied>>

create_razorpay_order(caller, provider_ok) ==
    /\ app = "running"
    /\ IF ~Authenticated(caller) THEN Refuse(Reply("create_razorpay_order", 401, "error"))
       ELSE IF users[caller].is_paid THEN Refuse(AlreadySubscribed("create_razorpay_order"))
       ELSE create_order("create_razorpay_order", provider_ok)
    /\ UNCHANGED <<admitted, app, settings, redis, store, now, users, inflight, issued, entitled, applied>>

\* gateway: the query parameter, "None" when absent.
Gateways == {"None", "", "stripe", "razorpay", "paypal"}

\* Mutant: the unified endpoint always takes the configured default.
selected_gateway_default(gateway) == settings.payment_gateway

selected_gateway(gateway) ==
    IF gateway = "None" \/ gateway = "" THEN settings.payment_gateway ELSE gateway

create_checkout(caller, gateway, provider_ok) ==
    /\ app = "running"
    /\ IF ~Authenticated(caller) THEN Refuse(Reply("create_checkout", 401, "error"))
       ELSE IF users[caller].is_paid THEN Refuse(AlreadySubscribed("create_checkout"))
       ELSE IF selected_gateway(gateway) = "razorpay"
       THEN create_order("create_checkout", provider_ok)
       ELSE create_checkout_session("create_checkout", provider_ok)
    /\ UNCHANGED <<admitted, app, settings, redis, store, now, users, inflight, issued, entitled, applied>>

\* GET /billing/gateway-info (billing.py 59-71); a list is a sequence.
available_gateways ==
    LET available == (IF settings.stripe_secret_key # "" THEN <<"stripe">> ELSE <<>>)
                     \o (IF settings.razorpay_key_id # "" THEN <<"razorpay">> ELSE <<>>)
    IN  IF available # <<>> THEN available ELSE <<settings.payment_gateway>>

get_gateway_info ==
    /\ app = "running"
    /\ Refuse(Reply("gateway_info", 200, "ok")
                @@ [active_gateway |-> settings.payment_gateway,
                    available_gateways |-> available_gateways])
    /\ UNCHANGED <<admitted, app, settings, redis, store, now, users, inflight, issued, entitled, applied>>

get_subscription_status(caller) ==
    /\ app = "running"
    /\ IF ~Authenticated(caller) THEN Refuse(Reply("status", 401, "error"))
       ELSE Refuse(Reply("status", 200, "ok") @@ [is_paid |-> users[caller].is_paid])
    /\ UNCHANGED <<admitted, app, settings, redis, store, now, users, inflight, issued, entitled, applied>>

(***************************************************************************)
(* RateLimiter.check_rate_limit (rate_limit.py 14-41) and the auth router  *)
(* (auth.py 22-84).  auth_rate_limiter = RateLimiter(5, 60).               *)
(***************************************************************************)
ClientIps == {"10.0.0.1"}

RateKey(endpoint, client_ip) == <<"ratelimit", endpoint, client_ip>>

RateLimited(endpoint) == Reply(endpoint, 429, "Rate limit exceeded")

\* History of the requests counted under a key since the key was created:
\* how many there were, the counter values they were given, how many were let
\* through; and the instants of those let through in the last window_seconds.
NoRequests == [requests |-> 0, seen |-> {}, allowed |-> 0, recent |-> <<>>]

Counted(key) == IF key \in DOMAIN admitted THEN admitted[key] ELSE NoRequests

Note(key, current, ok) ==
    IF ~redis THEN admitted
    ELSE Put(admitted, key,
             [requests |-> Counted(key).requests + 1,
              seen |-> Counted(key).seen \cup {current},
              allowed |-> Counted(key).allowed + (IF ok THEN 1 ELSE 0),
              recent |-> IF ok THEN Append(Counted(key).recent, now)
                         ELSE Counted(key).recent])

\* Mutant: every request sets the TTL again.
check_rate_limit_rearm(s, endpoint, req) ==
    LET key == RateKey(endpoint, req.client_ip)
        current == redis_incr(key)
    IN  /\ store' = [redis_incr_store(key) EXCEPT ![key].exp = now + window_seconds]
        /\ IF current = 1
           THEN Suspend(s, Request(endpoint, "expire", req))
           ELSE IF current > max_requests
           THEN Finish(s, RateLimited(endpoint))
           ELSE Suspend(s, Request(endpoint, "select", req))
        /\ admitted' = Note(key, current, inflight'[s].kind # "idle")

\* Mutant: the request after the ceiling is still let through.
check_rate_limit_above(s, endpoint, req) ==
    LET key == RateKey(endpoint, req.client_ip)
        current == redis_incr(key)
    IN  /\ store' = redis_incr_store(key)
        /\ IF current = 1
           THEN Suspend(s, Request(endpoint, "expire", req))
           ELSE IF current > max_requests + 1
           THEN Finish(s, RateLimited(endpoint))
           ELSE Suspend(s, Request(endpoint, "select", req))
        /\ admitted' = Note(key, current, inflight'[s].kind # "idle")

\* Mutant: the ceiling itself is refused.
check_rate_limit_below(s, endpoint, req) ==
    LET key == RateKey(endpoint, req.client_ip)
        current == redis_incr(key)
    IN  /\ store' = redis_incr_store(key)
        /\ IF current = 1
           THEN Suspend(s, Request(endpoint, "expire", req))
           ELSE IF current >= max_requests
           THEN Finish(s, RateLimited(endpoint))
           ELSE Suspend(s, Request(endpoint, "select", req))
        /\ admitted' = Note(key, current, inflight'[s].kind # "idle")

\* Lines 27-39 up to the await of expire: INCR, then the branch on its result.
check_rate_limit(s, endpoint, req) ==
    LET key == RateKey(endpoint, req.client_ip)
        current == redis_incr(key)
    IN  /\ store' = redis_incr_store(key)
        /\ IF current = 1
           THEN Suspend(s, Request(endpoint, "expire", req))
           ELSE IF current > max_requests
           THEN Finish(s, RateLimited(endpoint))
           ELSE Suspend(s, Request(endpoint, "select", req))
        /\ admitted' = Note(key, current, inflight'[s].kind # "idle")

\* Lines 30-39 for the request that got 1: EXPIRE, then the ceiling test.
check_rate_limit_expire(s) ==
    LET r == inflight[s]
    IN  /\ r.kind \in {"signup", "login"} /\ r.pc = "expire"
        /\ store' = redis_expire(RateKey(r.kind, r.req.client_ip), window_seconds)
        /\ IF 1 > max_requests
           THEN Finish(s, RateLimited(r.kind))
           ELSE Suspend(s, [r EXCEPT !.pc = "select"])
        /\ outbound' = NoCall
        /\ UNCHANGED <<admitted, app, settings, redis, now, users, issued, entitled, applied>>

\* Lines 31-32 when the await of redis.expire raises (RedisService.expire
\* passes the client's error on): the request ends with the unhandled error,
\* after INCR has created the counter and before any TTL is set.
check_rate_limit_expire_raises(s) ==
    LET r == inflight[s]
    IN  /\ r.kind \in {"signup", "login"} /\ r.pc = "expire"
        /\ redis
        /\ Finish(s, Reply(r.kind, 500, "error"))
        /\ outbound' = NoCall
        /\ UNCHANGED <<admitted, app, settings, redis, store, now, users, issued, entitled, applied>>

Registered(email) == \E u \in UserIds : users[u].email = email

\* auth.py 31: the rate limiter's first segment.
signup(s, email, password, client_ip) ==
    /\ app = "running" /\ FreeSlot(s)
    /\ check_rate_limit(s, "signup", [email |-> email, password |-> password,
                                      client_ip |-> client_ip])
    /\ outbound' = NoCall
    /\ UNCHANGED <<app, settings, redis, now, users, issued, entitled, applied>>

\* auth.py 34-41: look the email up.
signup_select(s) ==
    LET r == inflight[s]
    IN  /\ At(s, "signup", "select")
        /\ IF Registered(r.req.email)
           THEN Finish(s, Reply("signup", 400, "Email already registered"))
           ELSE Suspend(s, [r EXCEPT !.pc = "insert"])
        /\ outbound' = NoCall
        /\ UNCHANGED <<admitted, app, settings, redis, store, now, users, issued, entitled, applied>>

\* Mutant: users.email has no unique index.
signup_insert_unconstrained(s) ==
    LET r == inflight[s]
    IN  /\ At(s, "signup", "insert")
        /\ users' = Append(users, NewUser(r.req.email, hash_password(r.req.password)))
        /\ Finish(s, Reply("signup", 200, "ok"))
        /\ outbound' = NoCall
        /\ UNCHANGED <<admitted, app, settings, redis, store, now, issued, entitled, applied>>

\* auth.py 44-57: INSERT and commit; the unique index on users.email rejects a
\* second row with the same email (IntegrityError, unhandled).
signup_insert(s) ==
    LET r == inflight[s]
    IN  /\ At(s, "signup", "insert")
        /\ IF Registered(r.req.email)
           THEN users' = users /\ Finish(s, Reply("signup", 500, "error"))
           ELSE /\ users' = Append(users, NewUser(r.req.email, hash_password(r.req.password)))
                /\ Finish(s, Reply("signup", 200, "ok"))
        /\ outbound' = NoCall
        /\ UNCHANGED <<admitted, app, settings, redis, store, now, issued, entitled, applied>>

\* auth.py 69: the rate limiter's first segment.
login(s, email, password, client_ip) ==
    /\ app = "running" /\ FreeSlot(s)
    /\ check_rate_limit(s, "login", [email |-> email, password |-> password,
                                     client_ip |-> client_ip])
    /\ outbound' = NoCall
    /\ UNCHANGED <<app, settings, redis, now, users, issued, entitled, applied>>

\* auth.py 72-84: find the user, check the password.
login_select(s) ==
    LET r == inflight[s]
        ok == \E u \in UserIds : /\ users[u].email = r.req.email
                                 /\ verify_password(r.req.password, users[u].hashed_password)
    IN  /\ At(s, "login", "select")
        /\ Finish(s, IF ok THEN Reply("login", 200, "ok") ELSE Reply("login", 401, "error"))
        /\ outbound' = NoCall
        /\ UNCHANGED <<admitted, app, settings, redis, store, now, users, issued, entitled, applied>>

(***************************************************************************)
(* GET /signals  (signals.py 13-150).  A signal is its symbol and its      *)
(* timestamp; the cache holds the JSON text of the list.                   *)
(***************************************************************************)
MOCK_SIGNALS ==
    <<"NIFTY", "BANKNIFTY", "RELIANCE", "TCS", "HDFC BANK", "INFOSYS", "ICICI BANK", "SBIN">>

SIGNALS_CACHE_KEY == <<"signals", "all">>
SIGNALS_CACHE_TTL == 300
FREE_USER_SIGNAL_LIMIT == 3

\* json.dumps and json.loads: the text of a value, and the value of a text.
json_dumps(value) == <<"json", value>>
json_loads(text) == text[2]

\* RedisService.get: None when not connected or when the key is absent.
redis_get(key) ==
    IF ~redis THEN None ELSE IF key \in DOMAIN store THEN store[key].val ELSE None

\* RedisService.get_json: a falsy value is None.
redis_get_json(key) ==
    IF Truthy(redis_get(key)) THEN json_loads(redis_get(key)) ELSE None

\* seq[:n]
SliceTo(seq, n) == SubSeq(seq, 1, IF Len(seq) < n THEN Len(seq) ELSE n)

\* get_signals_data, lines 98-103: the mock list stamped with the current time.
fetch_signals == [i \in DOMAIN MOCK_SIGNALS |-> [symbol |-> MOCK_SIGNALS[i], timestamp |-> now]]

\* Mutant: the list is not cut for a free user.
select_signals_uncut(all_signals, is_paid) == all_signals

\* Mutant: the list is cut one signal later.
select_signals_one_more(all_signals, is_paid) ==
    IF is_paid THEN all_signals ELSE SliceTo(all_signals, FREE_USER_SIGNAL_LIMIT + 1)

\* Lines 126-131: the signals a user is shown.
select_signals(all_signals, is_paid) ==
    IF is_paid THEN all_signals ELSE SliceTo(all_signals, FREE_USER_SIGNAL_LIMIT)

\* Lines 123-150: the response made from the full list for the user the
\* request was authenticated as.
SignalsResponse(all_signals, is_paid) ==
    Reply("signals", 200, "ok")
    @@ [signals |-> select_signals(all_signals, is_paid),
        is_limited |-> ~is_paid,
        total_count |-> Len(all_signals)]

\* Lines 111-115: get_current_user loads the caller's row; the handler then
\* awaits the cache read.
get_signals(s, caller) ==
    /\ app = "running" /\ FreeSlot(s)
    /\ IF ~Authenticated(caller)
       THEN Finish(s, Reply("signals", 401, "error"))
       ELSE Suspend(s, [Request("signals", "get", [is_paid |-> users[caller].is_paid])
                          EXCEPT !.uid = caller])
    /\ outbound' = NoCall
    /\ UNCHANGED <<admitted, app, settings, redis, store, now, users, issued, entitled, applied>>

\* Lines 92-106 and 122-150: the cache answers; on a hit the response is made
\* from the cached list, on a miss the list is fetched and sent to the cache.
get_signals_cached(s) ==
    LET r == inflight[s]
        cached == redis_get_json(SIGNALS_CACHE_KEY)
    IN  /\ At(s, "signals", "get")
        /\ IF Truthy(cached)
           THEN Finish(s, SignalsResponse(cached, r.req.is_paid))
           ELSE Suspend(s, [r EXCEPT !.pc = "set", !.req = [is_paid |-> r.req.is_paid,
                                                             signals |-> fetch_signals]])
        /\ outbound' = NoCall
        /\ UNCHANGED <<admitted, app, settings, redis, store, now, users, issued, entitled, applied>>

\* Lines 106-108 and 122-150: the list is cached, the response is made from it.
get_signals_set(s) ==
    LET r == inflight[s]
    IN  /\ At(s, "signals", "set")
        /\ store' = redis_set(SIGNALS_CACHE_KEY, json_dumps(r.req.signals), SIGNALS_CACHE_TTL)
        /\ Finish(s, SignalsResponse(r.req.signals, r.req.is_paid))
        /\ outbound' = NoCall
        /\ UNCHANGED <<admitted, app, settings, redis, now, users, issued, entitled, applied>>

(***************************************************************************)
(* Start-up, and the passing of time.                                      *)
(***************************************************************************)
Init ==
    /\ app = "created"
    /\ settings = Configured
    /\ redis = FALSE
    /\ store = <<>>
    /\ now = 0
    /\ users = <<>>
    /\ inflight = [s \in Slots |-> Idle]
    /\ response = NoResponse
    /\ outbound = NoCall
    /\ issued = {}
    /\ entitled = {}
    /\ applied = <<>>
    /\ admitted = <<>>

\* main.py lifespan: redis_service.connect() before the first request is served.
lifespan_startup ==
    /\ app = "created"
    /\ app' = "running"
    /\ redis' = TRUE
    /\ response' = NoResponse
    /\ outbound' = NoCall
    /\ UNCHANGED <<admitted, settings, store, now, users, inflight, issued, entitled, applied>>

Restrict(f, S) == [x \in S |-> f[x]]

RECURSIVE Since(_, _)
Since(instants, t) ==
    IF instants = <<>> THEN <<>>
    ELSE IF Head(instants) >= t THEN instants ELSE Since(Tail(instants), t)

\* The history after the clock reaches t: a key that expired has no requests
\* counted any more; instants older than one window are forgotten.
Elapse(t) ==
    LET live(k) == k \in DOMAIN store /\ (store[k].exp = NoExpiry \/ store[k].exp > t)
        after(k) == [(IF live(k) THEN admitted[k] ELSE NoRequests)
                       EXCEPT !.recent = Since(admitted[k].recent, t - window_seconds)]
    IN  [k \in {j \in DOMAIN admitted : after(j) # NoRequests} |-> after(k)]

\* The clock reaches instant t: Redis drops the keys whose expiry has come.
Tick(t) ==
    /\ t > now
    /\ now' = t
    /\ store' = Restrict(store, {k \in DOMAIN store :
                                    store[k].exp = NoExpiry \/ store[k].exp > t})
    /\ applied' = Restrict(applied, {k \in DOMAIN applied : applied[k].at + Day > t})
    /\ response' = NoResponse
    /\ outbound' = NoCall
    /\ admitted' = Elapse(t)
    /\ UNCHANGED <<app, settings, redis, users, inflight, issued, entitled>>

\* A deployment in service: started, with two registered users who have not
\* paid, and no key left in Redis.
InitDeployed ==
    /\ app = "running"
    /\ settings \in Deployments
    /\ redis = TRUE
    /\ store = <<>>
    /\ now = 0
    /\ users = <<NewUser("a@x.io", hash_password("pw")),
                  NewUser("b@x.io", hash_password("pw"))>>
    /\ inflight = [s \in Slots |-> Idle]
    /\ response = NoResponse
    /\ outbound = NoCall
    /\ issued = {}
    /\ entitled = {}
    /\ applied = <<>>
    /\ admitted = <<>>

\* The counter a rate-limited request would read stays below the model's bound:
\* MaxCount signups in a window, and one login, which writes nothing but its
\* counter (the bursts of SpecRateLimit go up to MaxBurst for both).
BelowCount(endpoint, client_ip) ==
    redis_incr(RateKey(endpoint, client_ip)) <= (IF endpoint = "signup" THEN MaxCount ELSE 1)

Clock(instants) == \E t \in instants : Tick(t)

StripeWebhooks(payloads) ==
    \/ \E s \in Slots, p \in payloads, k \in SigningKeys("whsec_stripe") :
          stripe_webhook(s, p, Hmac(k, p))
    \/ \E s \in Slots : stripe_webhook_select(s)
    \/ \E s \in Slots : stripe_webhook_commit(s)
    \/ \E s \in Slots : stripe_webhook_set(s)

RazorpayWebhooks(payloads) ==
    \/ \E s \in Slots, p \in payloads, k \in SigningKeys("whsec_razorpay") :
          razorpay_webhook(s, p, Hmac(k, p))
    \/ \E s \in Slots : razorpay_webhook_select(s)
    \/ \E s \in Slots : razorpay_webhook_commit(s)
    \/ \E s \in Slots : razorpay_webhook_set(s)

\* The signature a client presents was made for the payment's own order.
VerifyPayment ==
    \/ \E s \in Slots, c \in Callers, o \in OrderIds, p \in PaymentIds,
          k \in SigningKeys("rzp_secret") :
          verify_razorpay_payment(s, c, o, p, Hmac(k, <<OrderOf(p), p>>))
    \/ \E s \in Slots : verify_razorpay_payment_commit(s)
    \/ \E s \in Slots : verify_razorpay_payment_set(s)

Checkout(gateways) ==
    \/ \E c \in Callers, ok \in BOOLEAN : create_stripe_checkout(c, ok)
    \/ \E c \in Callers, ok \in BOOLEAN : create_razorpay_order(c, ok)
    \/ \E c \in Callers, g \in gateways, ok \in BOOLEAN : create_checkout(c, g, ok)

Status == \E c \in Callers : get_subscription_status(c)

Signals ==
    \/ \E s \in Slots, c \in Callers : get_signals(s, c)
    \/ \E s \in Slots : get_signals_cached(s)
    \/ \E s \in Slots : get_signals_set(s)

Auth(emails) ==
    \/ \E s \in Slots, e \in emails, p \in Passwords, ip \in ClientIps :
          BelowCount("signup", ip) /\ signup(s, e, p, ip)
    \/ \E s \in Slots : check_rate_limit_expire(s)
    \/ \E s \in Slots : signup_select(s)
    \/ \E s \in Slots : signup_insert(s)
    \/ \E s \in Slots, e \in emails, p \in Passwords \cup {"guess"}, ip \in ClientIps :
          BelowCount("login", ip) /\ login(s, e, p, ip)
    \/ \E s \in Slots : login_select(s)

\* The payloads about the first two users' payments.
CorePayments == {"evt_u1", "evt_u2", "pay_u1", "pay_u2"}

(***************************************************************************)
(* Spec: the whole system from construction, one email address.            *)
(***************************************************************************)
Next ==
    \/ lifespan_startup
    \/ Clock(Moments(0, MaxDays))
    \/ Auth(FirstEmail)
    \/ StripeWebhooks({p \in StripePayloads : p.id \in CorePayments})
    \/ RazorpayWebhooks({p \in RazorpayPayloads : p.payment_id \in CorePayments})
    \/ VerifyPayment
    \/ Checkout({"None"})
    \/ Status

Spec == Init /\ [][Next]_vars

(***************************************************************************)
(* SpecWebhooks: the two webhook endpoints of a deployment in service,     *)
(* with every payload of the catalogues.                                   *)
(***************************************************************************)
NextWebhooks ==
    \/ Clock(Moments(MaxMinutes, MaxDays))
    \/ StripeWebhooks(StripePayloads)
    \/ RazorpayWebhooks(RazorpayPayloads)
    \/ Status

SpecWebhooks == InitDeployed /\ [][NextWebhooks]_vars

(***************************************************************************)
(* SpecPayments: every route by which a payment event is applied, the two  *)
(* webhooks and verify-payment, in a deployment in service.                *)
(***************************************************************************)
NextPayments ==
    \/ Clock(Moments(MaxMinutes, MaxDays))
    \/ StripeWebhooks(StripePayloads)
    \/ RazorpayWebhooks(RazorpayPayloads)
    \/ VerifyPayment
    \/ Status

SpecPayments == InitDeployed /\ [][NextPayments]_vars

(***************************************************************************)
(* SpecBilling: the endpoints a signed-in client calls, in a deployment in *)
(* service.                                                                *)
(***************************************************************************)
NextBilling ==
    \/ Clock(Moments(MaxMinutes, MaxDays))
    \/ VerifyPayment
    \/ Checkout(Gateways)
    \/ Status

SpecBilling == InitDeployed /\ [][NextBilling]_vars

(***************************************************************************)
(* SpecCheckout: checkout creation and gateway-info under every            *)
(* installation, with verify-payment as the way a user becomes paid.       *)
(***************************************************************************)
InitInstalled ==
    /\ app = "running"
    /\ settings \in Installations
    /\ redis = TRUE
    /\ store = <<>>
    /\ now = 0
    /\ users = <<NewUser("a@x.io", hash_password("pw")),
                  NewUser("b@x.io", hash_password("pw"))>>
    /\ inflight = [s \in Slots |-> Idle]
    /\ response = NoResponse
    /\ outbound = NoCall
    /\ issued = {}
    /\ entitled = {}
    /\ applied = <<>>
    /\ admitted = <<>>

NextCheckout ==
    \/ Checkout(Gateways)
    \/ get_gateway_info
    \/ VerifyPayment
    \/ Status

SpecCheckout == InitInstalled /\ [][NextCheckout]_vars

(***************************************************************************)
(* SpecRateLimit: bursts of login and signup requests from one client      *)
(* against the rate limiter of a deployment in service; a burst goes on    *)
(* until the counter has reached MaxBurst.                                 *)
(***************************************************************************)
\* Logins, signups of a registered user from the clients `ips`, while the
\* counter has not reached `most`.
Logins(ips, most) ==
    \E s \in Slots, ip \in ips :
        /\ redis_incr(RateKey("login", ip)) <= most
        /\ login(s, "a@x.io", "pw", ip)

Signups(ips, most) ==
    \E s \in Slots, ip \in ips :
        /\ redis_incr(RateKey("signup", ip)) <= most
        /\ signup(s, "a@x.io", "pw", ip)

Burst ==
    \/ Logins(ClientIps, MaxBurst)
    \/ Signups(ClientIps, MaxBurst)
    \/ \E s \in Slots : check_rate_limit_expire(s)
    \/ \E s \in Slots : login_select(s)
    \/ \E s \in Slots : signup_select(s)

NextRateLimit ==
    \/ Clock(Moments(MaxMinutes, MaxDays))
    \/ Burst

SpecRateLimit == InitDeployed /\ [][NextRateLimit]_vars

(***************************************************************************)
(* SpecSignals: the signals feed of a deployment in service, with          *)
(* verify-payment as the way a user becomes paid; the clock is read a      *)
(* minute after the start and a minute after the cache entry of the start  *)
(* has expired.                                                            *)
(***************************************************************************)
NextSignals ==
    \/ Clock({Minute, SIGNALS_CACHE_TTL + Minute})
    \/ Signals
    \/ VerifyPayment

SpecSignals == InitDeployed /\ [][NextSignals]_vars

(***************************************************************************)
(* SpecSignup: registration and login from construction, with two email    *)
(* addresses.                                                              *)
(***************************************************************************)
TwoEmails == {"a@x.io", "c@x.io"}

NextSignup ==
    \/ lifespan_startup
    \/ Clock(Moments(MaxMinutes, MaxDays))
    \/ Auth(TwoEmails)

SpecSignup == Init /\ [][NextSignup]_vars

(***************************************************************************)
(* SpecExpireRaises: bursts of logins against the rate limiter when the    *)
(* EXPIRE call of a request can fail.                                      *)
(***************************************************************************)
NextExpireRaises ==
    \/ Clock(Moments(MaxMinutes, MaxDays))
    \/ Logins(ClientIps, MaxBurst)
    \/ \E s \in Slots : check_rate_limit_expire(s)
    \/ \E s \in Slots : check_rate_limit_expire_raises(s)
    \/ \E s \in Slots : login_select(s)

SpecExpireRaises == InitDeployed /\ [][NextExpireRaises]_vars

(***************************************************************************)
(* SpecClients: two clients against the rate limiter of a deployment in    *)
(* service, the first with a burst of logins and a signup, the second with *)
(* a login; the signup and the second client's login arrive when no other  *)
(* request is in flight.  The clock is read every half window.             *)
(***************************************************************************)
FirstClient == {"10.0.0.1"}
SecondClient == {"10.0.0.2"}
HalfWindows == {k * (window_seconds \div 2) : k \in 1..2}

\* No request is in flight.
Quiet == \A s \in Slots : IsIdle(s)

NextClients ==
    \/ Clock(HalfWindows)
    \/ Logins(FirstClient, MaxBurst)
    \/ Quiet /\ Logins(SecondClient, 1)
    \/ Quiet /\ Signups(FirstClient, 1)
    \/ \E s \in Slots : check_rate_limit_expire(s)
    \/ \E s \in Slots : login_select(s)
    \/ \E s \in Slots : signup_select(s)

SpecClients == InitDeployed /\ [][NextClients]_vars

(***************************************************************************)
(* SpecUnconnected: the application serving requests without its lifespan  *)
(* having run (an ASGI server or test transport that does not send the     *)
(* lifespan events), so that redis_service.redis is still None.            *)
(***************************************************************************)
InitUnconnected ==
    /\ app = "running"
    /\ settings = Configured
    /\ redis = FALSE
    /\ store = <<>>
    /\ now = 0
    /\ users = <<NewUser("a@x.io", hash_password("pw")),
                  NewUser("b@x.io", hash_password("pw"))>>
    /\ inflight = [s \in Slots |-> Idle]
    /\ response = NoResponse
    /\ outbound = NoCall
    /\ issued = {}
    /\ entitled = {}
    /\ applied = <<>>
    /\ admitted = <<>>

NextUnconnected ==
    \/ Clock(Moments(MaxMinutes, 0))
    \/ StripeWebhooks({p \in StripePayloads : p.id \in CorePayments})
    \/ RazorpayWebhooks({p \in RazorpayPayloads : p.payment_id \in CorePayments})
    \/ VerifyPayment
    \/ Logins(ClientIps, MaxBurst)
    \/ Signups(ClientIps, MaxBurst)
    \/ \E s \in Slots : login_select(s)
    \/ \E s \in Slots : signup_select(s)

SpecUnconnected == InitUnconnected /\ [][NextUnconnected]_vars

(***************************************************************************)
(* C1.  No operation takes a user's is_paid from true to false: in every   *)
(* step of the whole system, under any interleaving of the requests, a     *)
(* user who is paid before the step is paid after it.                      *)
(***************************************************************************)
C1_PaidStaysPaid ==
    [][\A u \in UserIds :
          users[u].is_paid => (u \in DOMAIN users' /\ users'[u].is_paid)]_vars

\* A user is paid and two payment events have been applied to that user.
C1_Witness ==
    \E u \in UserIds : \E j, k \in DOMAIN applied :
        /\ users[u].is_paid
        /\ j # k /\ applied[j].uid = u /\ applied[k].uid = u

(***************************************************************************)
(* C2.  A new user starts with is_paid false, and a user is paid only if a *)
(* verified payment input naming that user was received earlier: a webhook *)
(* of the completed/captured kind carrying the user's id and signed with   *)
(* the provider's secret, or a verify-payment call by that user with a     *)
(* genuine signature.                                                      *)
(***************************************************************************)
C2_PaidOnlyIfVerified ==
    /\ [](\A u \in UserIds : users[u].is_paid => u \in entitled)
    /\ [][Len(users') > Len(users) => ~users'[Len(users')].is_paid]_vars

\* A request with a failing signature has just been rejected while a user is
\* paid.
C2_Witness ==
    /\ \E u \in UserIds : users[u].is_paid
    /\ response.code = 400
    /\ response.endpoint \in {"stripe_webhook", "razorpay_webhook", "verify_payment"}

C4_SecondDeliveryAlreadyProcessed ==
    [][/\ \A s \in Slots, p \in StripePayloads :
            (/\ p.json /\ StripeKey(p) \in DOMAIN applied
             /\ stripe_webhook(s, p, Hmac(settings.stripe_webhook_secret, p)))
            => /\ response' = Reply("stripe_webhook", 200, "already_processed")
               /\ users' = users
               /\ \A u \in UserIds : applied[StripeKey(p)].uid = u => users[u].is_paid
       /\ \A s \in Slots, p \in RazorpayPayloads :
            (/\ p.json /\ RazorpayKey(p) \in DOMAIN applied
             /\ settings.razorpay_webhook_secret # ""
             /\ razorpay_webhook(s, p, Hmac(settings.razorpay_webhook_secret, p)))
            => /\ response' = Reply("razorpay_webhook", 200, "already_processed")
               /\ users' = users
               /\ \A u \in UserIds : applied[RazorpayKey(p)].uid = u => users[u].is_paid]_vars

(***************************************************************************)
(* C5.  A verified event applied a second time within the key's TTL (the   *)
(* same event id on a webhook, the same payment id on verify-payment) ends *)
(* in its first segment, before the entitlement update (select the user,   *)
(* set is_paid, commit), which only the first application ran; the user is *)
(* paid after the first application and after the second.                  *)
(***************************************************************************)
C5_SecondApplicationSkipsUpdate ==
    [][/\ \A s \in Slots, p \in StripePayloads :
            (/\ p.json /\ StripeKey(p) \in DOMAIN applied
             /\ stripe_webhook(s, p, Hmac(settings.stripe_webhook_secret, p)))
            => /\ inflight'[s].kind = "idle" /\ users' = users
               /\ \A u \in UserIds :
                    applied[StripeKey(p)].uid = u => users[u].is_paid /\ users'[u].is_paid
       /\ \A s \in Slots, p \in RazorpayPayloads :
            (/\ p.json /\ RazorpayKey(p) \in DOMAIN applied
             /\ razorpay_webhook(s, p, Hmac(settings.razorpay_webhook_secret, p)))
            => /\ inflight'[s].kind = "idle" /\ users' = users
               /\ \A u \in UserIds :
                    applied[RazorpayKey(p)].uid = u => users[u].is_paid /\ users'[u].is_paid
       /\ \A s \in Slots, c \in UserIds, p \in PaymentIds :
            (/\ PaymentKey(p) \in DOMAIN applied
             /\ verify_razorpay_payment(s, c, OrderOf(p), p,
                    Hmac(settings.razorpay_key_secret, <<OrderOf(p), p>>)))
            => /\ inflight'[s].kind = "idle" /\ users' = users
               /\ \A u \in UserIds :
                    applied[PaymentKey(p)].uid = u => users[u].is_paid /\ users'[u].is_paid]_vars

\* A Stripe event that marked a user paid has just been delivered again.
C5_Witness ==
    /\ response = Reply("stripe_webhook", 200, "already_processed")
    /\ \E k \in DOMAIN applied : \E u \in UserIds :
          k[1] = "stripe_event" /\ applied[k].uid = u /\ users[u].is_paid

(***************************************************************************)
(* C6.  Every webhook delivery that passed the signature and idempotency   *)
(* checks and has completed left its idempotency key in Redis, expiring 24 *)
(* hours after the completion.                                             *)
(***************************************************************************)
C6_KeyRecordedAfterCheck ==
    \A k \in DOMAIN applied :
        k[1] \in {"stripe_event", "razorpay_webhook"}
        => k \in DOMAIN store /\ store[k].exp = applied[k].at + 24 * 60 * 60

(***************************************************************************)
(* C7.  A signature-valid payment-completed event whose user id is missing *)
(* or not numeric changes no user and is never answered with an error.     *)
(***************************************************************************)
C7_BadUserIdIsNoOp ==
    [][/\ \A s \in Slots, p \in StripePayloads :
            (/\ p.json /\ p.type = Completed
             /\ IntRaises(DictGet(p.metadata, "user_id"))
             /\ stripe_webhook(s, p, Hmac(settings.stripe_webhook_secret, p)))
            => users' = users /\ response'.code < 400
       /\ \A s \in Slots, p \in RazorpayPayloads :
            (/\ p.json /\ p.event = Captured
             /\ IntRaises(DictGet(p.notes, "user_id"))
             /\ settings.razorpay_webhook_secret # ""
             /\ razorpay_webhook(s, p, Hmac(settings.razorpay_webhook_secret, p)))
            => users' = users /\ response'.code < 400]_vars

(***************************************************************************)
(* C8.  A verified, parseable webhook event is never rejected: no segment  *)
(* of its handling answers with an error, and the last one answers         *)
(* 'success'.                                                              *)
(***************************************************************************)
C8_VerifiedEventAcknowledged ==
    [][/\ \A s \in Slots, p \in StripePayloads :
            (p.json /\ stripe_webhook(s, p, Hmac(settings.stripe_webhook_secret, p)))
            => response'.status \in {"", "success", "already_processed"}
       /\ \A s \in Slots, p \in RazorpayPayloads :
            (/\ p.json /\ settings.razorpay_webhook_secret # ""
             /\ razorpay_webhook(s, p, Hmac(settings.razorpay_webhook_secret, p)))
            => response'.status \in {"", "success", "already_processed"}
       /\ \A s \in Slots :
            (inflight[s].kind \in {"stripe_webhook", "razorpay_webhook"}
             /\ inflight'[s].kind = "idle")
            => response'.status = "success"]_vars

(***************************************************************************)
(* C9.  A checkout request by a paid user, at any of the three entry       *)
(* points and with any gateway parameter, is refused with AlreadySubscribed*)
(* (400) and no call reaches a payment provider.                           *)
(***************************************************************************)
C9_PaidUserRefused ==
    [][\A c \in UserIds, ok \in BOOLEAN :
          users[c].is_paid =>
            /\ create_stripe_checkout(c, ok)
               => response' = AlreadySubscribed("create_stripe_checkout") /\ outbound' = NoCall
            /\ create_razorpay_order(c, ok)
               => response' = AlreadySubscribed("create_razorpay_order") /\ outbound' = NoCall
            /\ \A g \in Gateways :
                 create_checkout(c, g, ok)
                 => response' = AlreadySubscribed("create_checkout") /\ outbound' = NoCall]_vars

\* A paid user has just been refused a checkout.
C9_Witness ==
    /\ response.code = 400
    /\ response.endpoint \in {"create_checkout", "create_stripe_checkout", "create_razorpay_order"}
    /\ outbound = NoCall
    /\ \E u \in UserIds : users[u].is_paid

(***************************************************************************)
(* C10.  Once a verify-payment call with payment id P has succeeded, every *)
(* later call with P within the key's TTL, whatever its order id and       *)
(* signature, is answered 200 in its first segment, before the signature   *)
(* verification, and writes neither a user row nor a Redis key.            *)
(***************************************************************************)
C10_VerifyPaymentIdempotent ==
    [][\A s \in Slots, c \in UserIds, o \in OrderIds, p \in PaymentIds,
          k \in SigningKeys("rzp_secret") :
          (/\ PaymentKey(p) \in DOMAIN applied
           /\ verify_razorpay_payment(s, c, o, p, Hmac(k, <<OrderOf(p), p>>)))
          => /\ response' = Reply("verify_payment", 200, "already_processed")
                               @@ [is_paid |-> TRUE]
             /\ inflight'[s].kind = "idle"
             /\ users' = users /\ store' = store]_vars

\* A repeated verify-payment call has just been answered from the key.
C10_Witness ==
    /\ response.endpoint = "verify_payment"
    /\ response.status = "already_processed"
    /\ \E k \in DOMAIN applied : k[1] = "razorpay_payment" /\ applied[k].ok

(***************************************************************************)
(* C11.  A verify-payment call whose payment id has no idempotency key and *)
(* whose signature does not verify is answered 400 and changes nothing:    *)
(* no user row is written and no key is recorded, so the payment id is     *)
(* still unknown to the next call.                                         *)
(***************************************************************************)
C11_InvalidPaymentSignatureRejected ==
    [][\A s \in Slots, c \in UserIds, o \in OrderIds, p \in PaymentIds,
          k \in SigningKeys("rzp_secret") :
          (/\ PaymentKey(p) \notin DOMAIN store
           /\ \/ k # settings.razorpay_key_secret
              \/ o # OrderOf(p)
              \/ settings.razorpay_key_id = "" \/ settings.razorpay_key_secret = ""
           /\ verify_razorpay_payment(s, c, o, p, Hmac(k, <<OrderOf(p), p>>)))
          => /\ response' = Reply("verify_payment", 400, "error")
             /\ users' = users /\ store' = store
             /\ PaymentKey(p) \notin DOMAIN store']_vars

\* A verify-payment call has just been rejected for its signature; no payment
\* id is recorded (the key of an earlier payment has expired).
C11_Witness ==
    /\ response = Reply("verify_payment", 400, "error")
    /\ \A k \in DOMAIN store : k[1] # "razorpay_payment"
    /\ \E u \in UserIds : ~users[u].is_paid
    /\ \E u \in UserIds : users[u].is_paid

(***************************************************************************)
(* C12.  With ceiling N = max_requests: the n-th request a client sends to *)
(* an endpoint while the counter key lives is let through when n <= N and  *)
(* answered 429 when n > N; when the clock passes the key's expiry the key *)
(* is gone, and a request that finds no key counts as the first and is let *)
(* through.                                                                *)
(***************************************************************************)
C12_CeilingPerWindow ==
    [][/\ \A s \in Slots, ip \in ClientIps, e \in {"login", "signup"} :
            LET key == RateKey(e, ip)
                n == Counted(key).requests + 1
            IN  (\/ e = "login" /\ login(s, "a@x.io", "pw", ip)
                 \/ e = "signup" /\ signup(s, "a@x.io", "pw", ip))
                => /\ n <= max_requests
                      => inflight'[s].kind = e /\ response'.code # 429
                   /\ n > max_requests
                      => inflight'[s].kind = "idle" /\ response' = RateLimited(e)
                   /\ key \notin DOMAIN store => n = 1
       /\ \A key \in DOMAIN store :
            (key[1] = "ratelimit" /\ store[key].exp # NoExpiry /\ now' >= store[key].exp)
            => key \notin DOMAIN store'
               /\ (key \notin DOMAIN admitted' \/ admitted'[key].requests = 0)]_vars

\* A request has just been refused in a second window: the key of the first
\* expired, the ceiling was reached again.
C12_Witness ==
    /\ response.code = 429
    /\ \E key \in DOMAIN admitted :
          /\ admitted[key].requests > max_requests
          /\ admitted[key].allowed = max_requests
          /\ Len(admitted[key].recent) > max_requests

(***************************************************************************)
(* C13.  Whatever the interleaving of the requests a client sends to an    *)
(* endpoint while the counter key lives, each of them is given a counter   *)
(* value no other was given, and of K such requests exactly min(K, N) are  *)
(* let through: never more than the ceiling N.                             *)
(***************************************************************************)
C13_DistinctCounts ==
    \A key \in DOMAIN admitted :
        /\ Cardinality(admitted[key].seen) = admitted[key].requests
        /\ admitted[key].allowed =
              IF admitted[key].requests < max_requests
              THEN admitted[key].requests ELSE max_requests
        /\ admitted[key].allowed <= max_requests

\* The first login of a window is still suspended before its EXPIRE while a
\* later login of the same window has just been refused.
C13_Witness ==
    /\ inflight[1].kind = "login" /\ inflight[1].pc = "expire"
    /\ response = RateLimited("login")
    /\ \E key \in DOMAIN admitted :
          key[2] = "login" /\ admitted[key].requests > admitted[key].allowed

(***************************************************************************)
(* C14.  create_checkout by an unpaid user: with gateway 'stripe' or       *)
(* 'razorpay' that adapter is the one used, whatever the configured        *)
(* default; with no gateway the configured default is used; no call goes   *)
(* to the other provider, and the 'gateway' tag of a checkout that was     *)
(* created names the provider that was called.                             *)
(***************************************************************************)
C14_GatewayResolved ==
    [][\A c \in UserIds, g \in {"stripe", "razorpay", "None"}, ok \in BOOLEAN :
          LET adapter == IF g = "None" THEN settings.payment_gateway ELSE g
          IN  (~users[c].is_paid /\ create_checkout(c, g, ok))
              => /\ outbound'.gateway \in {adapter, "none"}
                 /\ outbound'.gateway = "none" => response'.code = 500
                 /\ response'.code = 200
                    => /\ response'.gateway = adapter
                       /\ outbound'.gateway = adapter]_vars

\* A checkout has just been created with Razorpay where Stripe is the default,
\* or with Stripe where Razorpay is the default.
C14_Witness ==
    /\ response.endpoint = "create_checkout" /\ response.code = 200
    /\ response.gateway # settings.payment_gateway
    /\ outbound.gateway = response.gateway

(***************************************************************************)
(* C15.  create_checkout by an unpaid user with a gateway name that is     *)
(* neither 'stripe' nor 'razorpay' is served by the configured default     *)
(* gateway, whichever of the two the default is.                           *)
(***************************************************************************)
C15_UnknownGatewayFallsBack ==
    [][\A c \in UserIds, g \in Gateways \ {"stripe", "razorpay", "None", ""},
          ok \in BOOLEAN :
          (~users[c].is_paid /\ create_checkout(c, g, ok))
          => /\ outbound'.gateway \in {settings.payment_gateway, "none"}
             /\ response'.code = 200
                => response'.gateway = settings.payment_gateway]_vars

(***************************************************************************)
(* C16.  gateway-info lists a provider exactly when that provider's        *)
(* adapter has the credentials its create_payment needs: the secret key    *)
(* for Stripe, the key id and the key secret for Razorpay.                 *)
(***************************************************************************)
C16_ListedIffConfigured ==
    response.endpoint = "gateway_info"
    => LET listed == {response.available_gateways[i] :
                         i \in DOMAIN response.available_gateways}
       IN  /\ "stripe" \in listed <=> settings.stripe_secret_key # ""
           /\ "razorpay" \in listed
                 <=> (settings.razorpay_key_id # "" /\ settings.razorpay_key_secret # "")

(***************************************************************************)
(* C17.  The idempotency check is made once, on arrival, and is separate   *)
(* from the write of the key: a webhook delivery that found no key goes on *)
(* to run the entitlement update and to answer 'success' even when another *)
(* delivery of the same event has written the key in the meantime.  So two *)
(* concurrent deliveries of one payment-completed event can both pass the  *)
(* check, both run the update and both answer 'success' (C17_Witness).     *)
(***************************************************************************)
C17_CheckNotRepeated ==
    [][\A s \in Slots :
          LET r == inflight[s]
              key == IF r.kind = "stripe_webhook" THEN StripeKey(r.req)
                     ELSE RazorpayKey(r.req)
          IN  (/\ r.kind \in {"stripe_webhook", "razorpay_webhook"}
               /\ key \in DOMAIN store
               /\ inflight'[s].kind = "idle" \/ inflight'[s].pc # r.pc)
              => /\ r.pc = "commit"
                    => /\ inflight'[s].pc = "set"
                       /\ "committed" \in inflight'[s].trace
                       /\ users'[r.uid].is_paid
                 /\ r.pc = "set"
                    => /\ inflight'[s].kind = "idle"
                       /\ response' = Reply(r.kind, 200, "success")]_vars

\* Two deliveries of one Stripe event passed the check together and both ran
\* the update; the first has just answered 'success' and written the key, the
\* second is about to write it again and answer.
C17_Witness ==
    /\ response = Reply("stripe_webhook", 200, "success")
    /\ \E s \in Slots :
          /\ At(s, "stripe_webhook", "set")
          /\ "committed" \in inflight[s].trace
          /\ StripeKey(inflight[s].req) \in DOMAIN store
          /\ StripeKey(inflight[s].req) \in DOMAIN applied
          /\ applied[StripeKey(inflight[s].req)].uid = inflight[s].uid

(***************************************************************************)
(* C18.  The entitlement update gives the same outcome however often it is *)
(* applied for one verified event.  Once a delivery of the event has       *)
(* completed, the user's record is the one a single application produces   *)
(* (is_paid true, the event's customer reference) and the key holds        *)
(* "processed"; a further commit for the same event, after it or           *)
(* interleaved with it, leaves the users table as it is, and a further     *)
(* write of the key leaves the key's value as it is.                       *)
(***************************************************************************)
C18_SameOutcomeTwice ==
    /\ [](\A key \in DOMAIN applied : \A u \in UserIds :
            (applied[key].ok /\ applied[key].uid = u)
            => /\ users[u].is_paid
               /\ key \in DOMAIN store /\ store[key].val = "processed"
               /\ key[1] = "stripe_event"
                  => users[u] = MarkPaid(NewUser(users[u].email, users[u].hashed_password),
                                         "None",
                                         (CHOOSE p \in StripePayloads : p.id = key[2]).customer))
    /\ [][\A s \in Slots :
            LET r == inflight[s]
                key == IF r.kind = "stripe_webhook" THEN StripeKey(r.req)
                       ELSE RazorpayKey(r.req)
            IN  (/\ r.kind \in {"stripe_webhook", "razorpay_webhook"}
                 /\ key \in DOMAIN applied /\ applied[key].ok /\ applied[key].uid = r.uid
                 /\ inflight'[s].kind = "idle" \/ inflight'[s].pc # r.pc)
                => /\ users' = users
                   /\ DOMAIN store' = DOMAIN store
                   /\ store'[key].val = store[key].val]_vars

\* A second delivery of a Stripe event has run its commit a minute after the
\* first delivery of the same event completed.
C18_Witness ==
    \E s \in Slots :
        /\ At(s, "stripe_webhook", "set")
        /\ "committed" \in inflight[s].trace
        /\ StripeKey(inflight[s].req) \in DOMAIN applied
        /\ applied[StripeKey(inflight[s].req)].uid = inflight[s].uid
        /\ applied[StripeKey(inflight[s].req)].at < now
        /\ users[inflight[s].uid].stripe_customer_id # "None"

(***************************************************************************)
(* C19.  An idempotency key leaves Redis only by expiring, 24 hours after  *)
(* it was last written: every key has an expiry at most 24 hours ahead and *)
(* is present after every step that does not take the clock to its expiry. *)
(* A verified payment-completed event that arrives when its key is gone,   *)
(* for a user who is already paid, is handled as a first delivery: it      *)
(* passes the check, is answered 'success', its key is written with a new  *)
(* 24-hour expiry, and the user is still paid.                             *)
(***************************************************************************)
C19_KeysOnlyExpire ==
    /\ [](\A key \in DOMAIN store :
            key[1] \in {"stripe_event", "razorpay_webhook", "razorpay_payment"}
            => /\ store[key].exp # NoExpiry
               /\ store[key].exp > now
               /\ store[key].exp <= now + 24 * 60 * 60)
    /\ [][/\ \A key \in DOMAIN store :
               (key[1] \in {"stripe_event", "razorpay_webhook", "razorpay_payment"}
                /\ key \notin DOMAIN store')
               => now' > now /\ now' >= store[key].exp
          /\ \A s \in Slots, p \in StripePayloads, u \in UserIds :
               (/\ p.json /\ p.type = Completed
                /\ DictGet(p.metadata, "user_id") \in {<<"1">>, <<"2">>}
                /\ u = int(DictGet(p.metadata, "user_id"))
                /\ users[u].is_paid
                /\ StripeKey(p) \notin DOMAIN store
                /\ stripe_webhook(s, p, Hmac(settings.stripe_webhook_secret, p)))
               => inflight'[s].kind = "stripe_webhook" /\ inflight'[s].pc = "select"
          /\ \A s \in Slots :
               (/\ inflight[s].kind \in {"stripe_webhook", "razorpay_webhook"}
                /\ inflight[s].pc = "set"
                /\ inflight'[s].kind = "idle")
               => LET key == IF inflight[s].kind = "stripe_webhook"
                             THEN StripeKey(inflight[s].req)
                             ELSE RazorpayKey(inflight[s].req)
                  IN  /\ response'.status = "success"
                      /\ key \in DOMAIN store'
                      /\ store'[key].exp = now + 24 * 60 * 60
                      /\ \A u \in UserIds : users[u].is_paid => users'[u].is_paid
                      /\ \A u \in UserIds : inflight[s].uid = u => users'[u].is_paid]_vars

\* A Stripe event is being handled again after its key expired: the delivery
\* passed the check and committed for a user whose row already carried the
\* event's customer reference, no other request is in flight, no key is held.
C19_Witness ==
    \E s \in Slots :
        /\ At(s, "stripe_webhook", "set")
        /\ "committed" \in inflight[s].trace
        /\ inflight[s].loaded = inflight[s].req.customer
        /\ inflight[s].loaded # "None"
        /\ StripeKey(inflight[s].req) \notin DOMAIN store
        /\ \A o \in Slots \ {s} : IsIdle(o)
        /\ now >= 24 * 60 * 60

(***************************************************************************)
(* C20.  For one client and one endpoint, the requests let through in any  *)
(* interval as long as the window number at most 2N: `recent` holds the    *)
(* instants, from now - window_seconds to now, of the requests let         *)
(* through.  2N is reached by N requests at the start of one window and N  *)
(* as soon as its key has expired (C20_Witness).                           *)
(***************************************************************************)
C20_AtMostTwiceCeiling ==
    \A key \in DOMAIN admitted :
        /\ Len(admitted[key].recent) <= 2 * max_requests
        /\ \A i \in DOMAIN admitted[key].recent :
              /\ admitted[key].recent[i] >= now - window_seconds
              /\ admitted[key].recent[i] <= now

\* 2N logins were let through within one window's length: N a window ago, N
\* now.
C20_Witness ==
    \E key \in DOMAIN admitted :
        /\ key[2] = "login"
        /\ Len(admitted[key].recent) = 2 * max_requests
        /\ admitted[key].recent[1] = now - window_seconds
        /\ admitted[key].recent[2 * max_requests] = now
        /\ admitted[key].allowed = max_requests

(***************************************************************************)
(* C21.  The signals feed is gated by is_paid.  Every feed response gives  *)
(* the full number of signals as total_count; a limited response holds     *)
(* exactly the first 3 signals, a full one holds them all.  The response   *)
(* is limited exactly when the user was unpaid on authentication of the    *)
(* request: a full view is given only to a user who is paid, an unpaid     *)
(* user's view is limited, and a request authenticated after the user's    *)
(* payment was committed gets the full view.                               *)
(***************************************************************************)
C21_FeedGatedByEntitlement ==
    /\ [](response.endpoint = "signals" /\ response.code = 200
          => /\ response.total_count = Len(MOCK_SIGNALS)
             /\ Len(response.signals) = IF response.is_limited THEN 3 ELSE Len(MOCK_SIGNALS)
             /\ \A i \in DOMAIN response.signals :
                   response.signals[i].symbol = MOCK_SIGNALS[i])
    /\ [][/\ \A s \in Slots, c \in UserIds :
               get_signals(s, c) => inflight'[s].req.is_paid = users[c].is_paid
          /\ \A s \in Slots :
               (inflight[s].kind = "signals" /\ inflight'[s].kind = "idle")
               => /\ response'.code = 200
                  /\ response'.is_limited = ~inflight[s].req.is_paid
                  /\ ~response'.is_limited => users[inflight[s].uid].is_paid
                  /\ ~users[inflight[s].uid].is_paid => response'.is_limited]_vars

\* A user has just been given the full view, from the cache, while a request
\* the same user made before paying is still waiting: the view has switched.
C21_Witness ==
    /\ response.endpoint = "signals" /\ response.code = 200 /\ ~response.is_limited
    /\ response.signals[1].timestamp < now
    /\ \E s \in Slots :
          /\ inflight[s].kind = "signals" /\ ~inflight[s].req.is_paid
          /\ users[inflight[s].uid].is_paid
          /\ \A u \in UserIds : u # inflight[s].uid => ~users[u].is_paid

(***************************************************************************)
(* C22.  No two users have the same email, in every reachable state.  A    *)
(* signup whose lookup finds its email registered is answered 400 'Email   *)
(* already registered'; no step of a signup whose email is registered adds *)
(* a user, whatever the interleaving of the signups with that email; a     *)
(* user's email never changes.                                             *)
(***************************************************************************)
C22_EmailsUnique ==
    /\ [](\A u, v \in UserIds : users[u].email = users[v].email => u = v)
    /\ [][/\ \A s \in Slots :
               (/\ At(s, "signup", "select") /\ Registered(inflight[s].req.email)
                /\ inflight'[s] # inflight[s])
               => /\ response' = Reply("signup", 400, "Email already registered")
                  /\ inflight'[s].kind = "idle"
          /\ \A s \in Slots :
               (/\ inflight[s].kind = "signup" /\ Registered(inflight[s].req.email)
                /\ inflight'[s] # inflight[s])
               => users' = users
          /\ \A s \in Slots, e \in TwoEmails, ip \in ClientIps :
               (Registered(e) /\ signup(s, e, "pw", ip)) => users' = users
          /\ \A u \in UserIds : u \in DOMAIN users' /\ users'[u].email = users[u].email
          /\ Len(users') <= Len(users) + 1]_vars

\* Two signups with one email ran together: both found the email free, one
\* created the user, the other has just failed at its insert.
C22_Witness ==
    /\ response = Reply("signup", 500, "error")
    /\ Cardinality({u \in UserIds : users[u].email = "c@x.io"}) = 1
    /\ Cardinality({u \in UserIds : users[u].email = "a@x.io"}) = 1

(***************************************************************************)
(* C23.  The idempotency key is written only after the effect: in every    *)
(* state, requests in flight included, when the key of a payment-completed *)
(* webhook event that names an existing user is held, that user is paid,   *)
(* and when the key of a verify-payment call is held, its caller is paid;  *)
(* the commit does not write the key, so a request that stops after its    *)
(* commit leaves the event unmarked.                                       *)
(***************************************************************************)
C23_MarkerAfterEffect ==
    /\ [](/\ \A p \in StripePayloads :
               (/\ p.json /\ p.type = Completed /\ StripeKey(p) \in DOMAIN store
                /\ ~IntRaises(DictGet(p.metadata, "user_id"))
                /\ int(DictGet(p.metadata, "user_id")) \in UserIds)
               => users[int(DictGet(p.metadata, "user_id"))].is_paid
          /\ \A p \in RazorpayPayloads :
               (/\ p.json /\ p.event = Captured /\ RazorpayKey(p) \in DOMAIN store
                /\ ~IntRaises(DictGet(p.notes, "user_id"))
                /\ int(DictGet(p.notes, "user_id")) \in UserIds)
               => users[int(DictGet(p.notes, "user_id"))].is_paid
          /\ \A key \in DOMAIN store :
               (key[1] = "razorpay_payment" /\ key \in DOMAIN applied)
               => users[applied[key].uid].is_paid)
    /\ [][\A s \in Slots :
            (/\ inflight[s].kind \in {"stripe_webhook", "razorpay_webhook", "verify_payment"}
             /\ inflight[s].pc = "commit" /\ inflight'[s] # inflight[s])
            => store' = store /\ inflight'[s].pc = "set"]_vars

(***************************************************************************)
(* C24.  Every rate-limit counter has a TTL of at most the window length   *)
(* from the moment the request that created it has gone past its EXPIRE    *)
(* or has ended, also when that request ended between INCR and EXPIRE: no  *)
(* counter is left without an expiry, so a client that was rejected is     *)
(* allowed again when the window has passed.                               *)
(***************************************************************************)
C24_EveryCounterExpires ==
    \A key \in DOMAIN store :
        key[1] = "ratelimit"
        => \/ store[key].exp # NoExpiry /\ store[key].exp <= now + window_seconds
           \/ \E s \in Slots :
                 /\ inflight[s].kind = key[2] /\ inflight[s].pc = "expire"
                 /\ inflight[s].req.client_ip = key[3]

(***************************************************************************)
(* C25.  The is_paid field of every verify-payment response is the stored  *)
(* is_paid of the authenticated caller when the response is sent: on the   *)
(* 'success' path, and on the 'already_processed' path whoever the caller  *)
(* is.                                                                     *)
(***************************************************************************)
C25_ResponseIsStoredFlag ==
    [][/\ \A s \in Slots, c \in UserIds, o \in OrderIds, p \in PaymentIds,
            k \in SigningKeys("rzp_secret") :
            (/\ verify_razorpay_payment(s, c, o, p, Hmac(k, <<OrderOf(p), p>>))
             /\ response'.code = 200)
            => response'.is_paid = users'[c].is_paid
       /\ \A s \in Slots :
            (At(s, "verify_payment", "set") /\ inflight'[s].kind = "idle")
            => response'.is_paid = users'[inflight[s].uid].is_paid]_vars

(***************************************************************************)
(* C26.  A payment grants entitlement only to the user it was created for: *)
(* whenever a user becomes paid, the step is the commit of a webhook event *)
(* that carries that user's id, or the commit of a verify-payment call     *)
(* whose order was created for that user.  The triple of an order created  *)
(* for user A does not make another caller B paid.                         *)
(***************************************************************************)
C26_PaidOnlyByOwnPayment ==
    [][\A u \in UserIds :
          (~users[u].is_paid /\ users'[u].is_paid)
          => \E s \in Slots :
                /\ inflight[s].kind \in {"stripe_webhook", "razorpay_webhook", "verify_payment"}
                /\ inflight[s].pc = "commit" /\ inflight[s].uid = u
                /\ inflight[s].kind = "stripe_webhook"
                   => int(DictGet(inflight[s].req.metadata, "user_id")) = u
                /\ inflight[s].kind = "razorpay_webhook"
                   => int(DictGet(inflight[s].req.notes, "user_id")) = u
                /\ inflight[s].kind = "verify_payment"
                   => OrderUser(inflight[s].req.order_id) = u]_vars

(***************************************************************************)
(* C27.  Counters are per endpoint and client, and a rejected request does *)
(* not extend the window.  A request adds one to the counter of its own    *)
(* endpoint and client and leaves every other key, and the expiry of its   *)
(* own, as they are; this includes a request answered 429.  Only the       *)
(* request that got 1 sets the expiry, a window ahead, and once set the    *)
(* expiry of a key never changes; when the clock reaches it the key is     *)
(* gone, and a request that finds no key is let through.                   *)
(***************************************************************************)
C27_CountersIndependent ==
    [][/\ \A s \in Slots, ip \in FirstClient \cup SecondClient, e \in {"login", "signup"} :
            LET key == RateKey(e, ip)
            IN  (\/ e = "login" /\ login(s, "a@x.io", "pw", ip)
                 \/ e = "signup" /\ signup(s, "a@x.io", "pw", ip))
                => /\ DOMAIN store' = DOMAIN store \cup {key}
                   /\ \A k \in DOMAIN store \ {key} : store'[k] = store[k]
                   /\ store'[key].val = (IF key \in DOMAIN store THEN store[key].val ELSE 0) + 1
                   /\ key \in DOMAIN store => store'[key].exp = store[key].exp
                   /\ key \notin DOMAIN store => inflight'[s].kind = e
                   /\ response'.code = 429 => store[key].val >= max_requests
       /\ \A s \in Slots :
            (inflight[s].kind \in {"login", "signup"} /\ inflight[s].pc = "expire"
             /\ inflight'[s] # inflight[s])
            => LET key == RateKey(inflight[s].kind, inflight[s].req.client_ip)
               IN  /\ store[key].exp = NoExpiry
                   /\ store' = [store EXCEPT ![key].exp = now + window_seconds]
       /\ \A key \in DOMAIN store :
            (key[1] = "ratelimit" /\ store[key].exp # NoExpiry)
            => IF now' >= store[key].exp THEN key \notin DOMAIN store'
               ELSE key \in DOMAIN store' /\ store'[key].exp = store[key].exp]_vars

\* The first client's login has just been rejected for the second time, half
\* a window after the window began: its login counter still expires one
\* window after the beginning, and its signup counter and the second client's
\* login counter stand at 1.
C27_Witness ==
    /\ response = RateLimited("login")
    /\ now = window_seconds \div 2
    /\ RateKey("login", "10.0.0.1") \in DOMAIN store
    /\ store[RateKey("login", "10.0.0.1")] = [val |-> max_requests + 2, exp |-> window_seconds]
    /\ RateKey("signup", "10.0.0.1") \in DOMAIN store
    /\ store[RateKey("signup", "10.0.0.1")].val = 1
    /\ RateKey("login", "10.0.0.2") \in DOMAIN store
    /\ store[RateKey("login", "10.0.0.2")].val = 1

(***************************************************************************)
(* C28.  Without a Redis client the wrapper answers instead of raising:    *)
(* exists is false, get is None, incr is 0, set and expire write nothing.  *)
(* So no key is ever held, no request is answered 429 or                   *)
(* 'already_processed', every login and signup goes past the rate limiter, *)
(* and every delivery of a verified payment event that names a user, and   *)
(* every verify-payment call with a genuine signature, passes the check    *)
(* and runs the entitlement update again.                                  *)
(***************************************************************************)
C28_FailOpen ==
    /\ [](~redis
          => /\ store = <<>>
             /\ response.code # 429 /\ response.status # "already_processed"
             /\ \A key \in {StripeKey(p) : p \in StripePayloads}
                           \cup {RazorpayKey(p) : p \in RazorpayPayloads}
                           \cup {PaymentKey(p) : p \in PaymentIds}
                           \cup {RateKey(e, ip) : e \in {"login", "signup"}, ip \in ClientIps} :
                   /\ ~redis_exists(key) /\ redis_get(key) = None /\ redis_incr(key) = 0
                   /\ redis_set(key, "processed", 24 * 60 * 60) = store
                   /\ redis_expire(key, window_seconds) = store)
    /\ [][~redis
          => /\ \A s \in Slots, ip \in ClientIps, e \in {"login", "signup"} :
                  (\/ e = "login" /\ login(s, "a@x.io", "pw", ip)
                   \/ e = "signup" /\ signup(s, "a@x.io", "pw", ip))
                  => inflight'[s].kind = e /\ inflight'[s].pc = "select"
             /\ \A s \in Slots, p \in StripePayloads, u \in UserIds :
                  (/\ p.json /\ p.type = Completed
                   /\ DictGet(p.metadata, "user_id") \in {<<"1">>, <<"2">>}
                   /\ u = int(DictGet(p.metadata, "user_id"))
                   /\ stripe_webhook(s, p, Hmac(settings.stripe_webhook_secret, p)))
                  => inflight'[s].kind = "stripe_webhook" /\ inflight'[s].pc = "select"
             /\ \A s \in Slots, p \in RazorpayPayloads, u \in UserIds :
                  (/\ p.json /\ p.event = Captured
                   /\ DictGet(p.notes, "user_id") \in {<<"1">>, <<"2">>}
                   /\ u = int(DictGet(p.notes, "user_id"))
                   /\ razorpay_webhook(s, p, Hmac(settings.razorpay_webhook_secret, p)))
                  => inflight'[s].kind = "razorpay_webhook" /\ inflight'[s].pc = "select"
             /\ \A s \in Slots, c \in UserIds, p \in PaymentIds :
                  verify_razorpay_payment(s, c, OrderOf(p), p,
                      Hmac(settings.razorpay_key_secret, <<OrderOf(p), p>>))
                  => inflight'[s].kind = "verify_payment" /\ inflight'[s].pc = "commit"
             /\ \A s \in Slots :
                  (/\ inflight[s].kind \in {"stripe_webhook", "razorpay_webhook"}
                   /\ inflight[s].pc = "select" /\ inflight'[s] # inflight[s])
                  => inflight'[s].pc = "commit"
             /\ \A s \in Slots :
                  (/\ inflight[s].kind \in {"stripe_webhook", "razorpay_webhook", "verify_payment"}
                   /\ inflight[s].pc = "commit" /\ inflight'[s] # inflight[s])
                  => users'[inflight[s].uid].is_paid /\ inflight'[s].pc = "set"
             /\ \A s \in Slots :
                  (/\ inflight[s].kind \in {"stripe_webhook", "razorpay_webhook", "verify_payment"}
                   /\ inflight[s].pc = "set" /\ inflight'[s] # inflight[s])
                  => response'.status = "success" /\ store' = store]_vars

\* A Stripe event that was applied a minute ago has been delivered again and
\* has run the update a second time, while a login is past the rate limiter.
C28_Witness ==
    /\ ~redis
    /\ \E s \in Slots :
          /\ At(s, "stripe_webhook", "set")
          /\ "committed" \in inflight[s].trace
          /\ StripeKey(inflight[s].req) \in DOMAIN applied
          /\ applied[StripeKey(inflight[s].req)].ok
          /\ applied[StripeKey(inflight[s].req)].uid = inflight[s].uid
          /\ applied[StripeKey(inflight[s].req)].at < now
          /\ users[inflight[s].uid].is_paid
    /\ \E s \in Slots : At(s, "login", "select")

====
